---------------------------- MODULE Spec2Model ----------------------------
(* A state-machine model of the whatsapp-vectorDB pipeline:                *)
(*   embed pass   (package embed:  GetEmbedding, CreateEmbeddingFile)      *)
(*   upsert pass  (package upsert: GetOrCreatePineconeIndex,               *)
(*                                 UpsertDataToPinecone)                   *)
(*   query loop   (package main:   queryPinecone,                          *)
(*                                 promptUserAndQueryPinecone)             *)
(* Remote services, files and the terminal are the environment: every      *)
(* response, file content and typed line is chosen nondeterministically    *)
(* from a small set.                                                       *)
EXTENDS Integers, Sequences, FiniteSets, TLC

VARIABLES
    \* ---- embed pass (CreateEmbeddingFile) ----
    inputFile,          \* the lines of the input file, in order
    ePc,                \* "scan" while the scanner loop runs, then "done"
    eLineNumber,        \* lineNumber
    linesProcessed,
    parseFailures,
    embeddingFailures,
    writeFailures,
    successCount,
    sink,               \* rows handed successfully to csvWriter.Write
    eTrace,             \* history: what happened to each line, in line order
    \* ---- upsert action (GetOrCreatePineconeIndex, UpsertDataToPinecone) ----
    csvFile,            \* the lines of the embeddings file, in order
    uPc,                \* where the upsert action stands
    indexResult,        \* what GetOrCreatePineconeIndex returned: "none", "nil", "error"
    uCalls,             \* history: the control-plane calls issued, in order
    uLineNumber,        \* lineNumber
    uSuccessCount,      \* successCount
    uFailCount,         \* failCount
    uTrace,             \* history: what happened to each row, in row order
    \* ---- query action (queryPinecone, promptUserAndQueryPinecone) ----
    qPc,                \* "prompt" (AwaitingInput), "embedding", "querying", "fetching",
                        \* "displaying", "exited" (returned nil), "error" (returned err)
    qCount,             \* how many inputs were read so far
    qInput,             \* what the last ReadString returned
    queryMessage,       \* the trimmed input of this iteration
    qVector,            \* queryVector
    qCalls,             \* history: the network calls of this iteration, in order
    qResponse,          \* response.Matches as decoded from the similarity response
    qIdx,               \* how many matches the running range loop has done
    qCopies,            \* history: the loop variable `match` after each body
    qFetched,           \* history: the entry each fetch of queryPinecone found
    qReturned,          \* the matches queryPinecone returned
    qErr,               \* the error queryPinecone returned ("nil" for none)
    qShown,             \* history: the entries the loop displayed
    \* ---- the CLI driver (main) ----
    mPc,                \* "action", "lang", "dispatch", "embed", "upsert", "whoami",
                        \* "query", then "returned", "fatal" (log.Fatalf) or "panic"
    mActions,           \* actions: the fields of the action line
    mIdx,               \* how many of the actions the for loop has done
    mLang,              \* lang, trimmed
    inputFileName,
    embeddingsFileName,
    mOutput,            \* history: what main printed on standard output
    mRan,               \* history: the actions main started, in order
    pcProjectID,        \* what getPcProjectID returned to the query case
    whoamiErr           \* the error getPcProjectID returned ("nil" for none)

embedVars == <<inputFile, ePc, eLineNumber, linesProcessed, parseFailures,
               embeddingFailures, writeFailures, successCount, sink, eTrace>>

upsertVars == <<csvFile, uPc, indexResult, uCalls, uLineNumber, uSuccessCount,
                uFailCount, uTrace>>

queryVars == <<qPc, qCount, qInput, queryMessage, qVector, qCalls, qResponse, qIdx,
               qCopies, qFetched, qReturned, qErr, qShown>>

mainVars == <<mPc, mActions, mIdx, mLang, inputFileName, embeddingsFileName, mOutput,
              mRan, pcProjectID, whoamiErr>>

vars == <<embedVars, upsertVars, queryVars, mainVars>>

otherThanEmbed == <<upsertVars, queryVars, mainVars>>
otherThanUpsert == <<embedVars, queryVars, mainVars>>
otherThanQuery == <<embedVars, upsertVars, mainVars>>

-----------------------------------------------------------------------------
(* Bounds of the model                                                     *)

MaxLines == 3
MaxRows == 2
MaxQueries == 2

-----------------------------------------------------------------------------
(* Text: a string is a sequence of one-character strings                   *)

IsSpace(c) == c = " "

\* index of the first position >= i of s that is not white space (Len(s)+1 if none)
RECURSIVE SkipSpaces(_, _)
SkipSpaces(s, i) ==
    IF i <= Len(s) /\ IsSpace(s[i]) THEN SkipSpaces(s, i + 1) ELSE i

\* index just after the maximal run of non-space characters starting at i
RECURSIVE SkipNonSpaces(_, _)
SkipNonSpaces(s, i) ==
    IF i <= Len(s) /\ ~IsSpace(s[i]) THEN SkipNonSpaces(s, i + 1) ELSE i

Slice(s, from, to) == [k \in 1..(to - from) |-> s[from + k - 1]]

RECURSIVE Concat(_)
Concat(ss) == IF ss = <<>> THEN <<>> ELSE Head(ss) \o Concat(Tail(ss))

-----------------------------------------------------------------------------
(* The line parser: re = (?:\[.*?\]\s*:\s*~?|^)(\S+)                       *)

NoMatch == [found |-> FALSE, from |-> 0, gfrom |-> 0, to |-> 0]

\* the tail  \s*~?(\S+)  of the first alternative, entered at position i
PrefixTail(s, p, i) ==
    LET m == SkipSpaces(s, i) IN
    IF m > Len(s) THEN NoMatch
    ELSE IF s[m] = "~" /\ m + 1 <= Len(s) /\ ~IsSpace(s[m + 1])
         THEN [found |-> TRUE, from |-> p, gfrom |-> m + 1,
               to |-> SkipNonSpaces(s, m + 1)]
         ELSE [found |-> TRUE, from |-> p, gfrom |-> m, to |-> SkipNonSpaces(s, m)]

\* \[.*?\]\s*:  with the bracket opened at p: the lazy .*? tries each closing
\* bracket j in increasing order
RECURSIVE BracketAlt(_, _, _)
BracketAlt(s, p, j) ==
    IF j > Len(s) THEN NoMatch
    ELSE IF s[j] = "]"
         THEN LET k == SkipSpaces(s, j + 1)
                  r == IF k <= Len(s) /\ s[k] = ":"
                       THEN PrefixTail(s, p, k + 1) ELSE NoMatch
              IN IF r.found THEN r ELSE BracketAlt(s, p, j + 1)
         ELSE BracketAlt(s, p, j + 1)

\* the match of re that starts at position p, first alternative first
MatchAt(s, p) ==
    LET a == IF p <= Len(s) /\ s[p] = "[" THEN BracketAlt(s, p, p + 1) ELSE NoMatch
    IN IF a.found THEN a
       ELSE IF p = 1 /\ Len(s) >= 1 /\ ~IsSpace(s[1])
            THEN [found |-> TRUE, from |-> 1, gfrom |-> 1, to |-> SkipNonSpaces(s, 1)]
            ELSE NoMatch

RECURSIVE LeftmostMatch(_, _)
LeftmostMatch(s, p) ==
    IF p > Len(s) THEN NoMatch
    ELSE IF MatchAt(s, p).found THEN MatchAt(s, p) ELSE LeftmostMatch(s, p + 1)

\* re.FindStringSubmatch(line): <<>> (nil) when nothing matches, else the whole
\* match followed by the one capture group
FindStringSubmatch(line) ==
    LET m == LeftmostMatch(line, 1) IN
    IF m.found THEN << Slice(line, m.from, m.to), Slice(line, m.gfrom, m.to) >>
    ELSE <<>>

-----------------------------------------------------------------------------
(* The embedding client                                                    *)

\* strings.ReplaceAll(text, "\n", " ") then strings.ReplaceAll(text, "'", "'\''")
Sanitize(text) ==
    Concat([k \in 1..Len(text) |->
              IF text[k] = "\n" THEN <<" ">>
              ELSE IF text[k] = "'" THEN <<"'", "\\", "'", "'">>
              ELSE <<text[k]>>])

\* What the embeddings endpoint may answer. A float64 is modelled as an
\* integer number of 10^-7 units.
EmbedResponses ==
    { [kind |-> "transport_error", data |-> <<>>],
      [kind |-> "bad_json",        data |-> <<>>],
      [kind |-> "json",            data |-> <<>>],
      [kind |-> "json",            data |-> << <<>> >>],
      [kind |-> "json",            data |-> << <<14, -26>> >>],
      [kind |-> "json",            data |-> << <<1000003>>, <<7>> >>] }

\* GetEmbedding(text, model) against the response resp
GetEmbedding(text, resp) ==
    LET body == Sanitize(text) IN
    IF resp.kind = "transport_error" THEN [err |-> "http", embedding |-> <<>>, body |-> body]
    ELSE IF resp.kind = "bad_json" THEN [err |-> "decode", embedding |-> <<>>, body |-> body]
    ELSE IF Len(resp.data) = 0 \/ Len(resp.data[1]) = 0
         THEN [err |-> "no data", embedding |-> <<>>, body |-> body]
         ELSE [err |-> "nil", embedding |-> resp.data[1], body |-> body]

\* fmt.Sprintf("%f", f): six decimals, rounded to nearest (ties to even); the
\* text is modelled by its number of 10^-6 units
FormatF(f) ==
    LET a  == IF f < 0 THEN -f ELSE f
        q  == a \div 10
        r  == a % 10
        up == IF r > 5 \/ (r = 5 /\ q % 2 = 1) THEN q + 1 ELSE q
    IN IF f < 0 THEN -up ELSE up

float64ToStringSlice(floats) == [i \in 1..Len(floats) |-> FormatF(floats[i])]

-----------------------------------------------------------------------------
(* The embed pass: CreateEmbeddingFile                                     *)

SampleLines ==
    { <<>>,                                   \* an empty line
      <<" ", "h", "i">>,                      \* leading blank, no prefix
      <<"i", "t", "'", "s", " ", "o">>,       \* no prefix
      <<"[", "t", "]", ":", "~", "o", "k">>,  \* bracketed prefix
      <<"[", "t", "]", " ", "i", "t", "'", "s">> }

RECURSIVE SeqsUpTo(_, _)
SeqsUpTo(S, n) ==
    IF n = 0 THEN { <<>> }
    ELSE LET shorter == SeqsUpTo(S, n - 1) IN
         shorter \cup { Append(q, x) : q \in { t \in shorter : Len(t) = n - 1 }, x \in S }

EmbedStart ==
    /\ inputFile \in SeqsUpTo(SampleLines, MaxLines)
    /\ ePc = "scan"
    /\ eLineNumber = 0
    /\ linesProcessed = 0
    /\ parseFailures = 0
    /\ embeddingFailures = 0
    /\ writeFailures = 0
    /\ successCount = 0
    /\ sink = <<>>
    /\ eTrace = <<>>

\* the message the loop body extracts from the matches of a line
MessageOf(matches) ==
    IF Len(matches) = 3 THEN matches[3]
    ELSE IF Len(matches) = 2 THEN matches[2]
    ELSE <<>>

ParseFailed(matches) == Len(matches) # 3 /\ Len(matches) # 2

\* does the loop body go on to GetEmbedding after looking at the matches?
CallsEmbedding(matches) == TRUE

\* One iteration of the scanner loop: one line parsed, embedded and written.
ScanLine ==
    /\ ePc = "scan"
    /\ eLineNumber < Len(inputFile)
    /\ \E resp \in EmbedResponses, writeOk \in BOOLEAN :
         LET n       == eLineNumber + 1
             line    == inputFile[n]
             matches == FindStringSubmatch(line)
             message == MessageOf(matches)
             failed  == ParseFailed(matches)
             called  == CallsEmbedding(matches)
             got     == GetEmbedding(message, resp)
             row     == float64ToStringSlice(got.embedding)
             embOk   == called /\ got.err = "nil"
             wrote   == embOk /\ writeOk
         IN /\ eLineNumber' = n
            /\ linesProcessed' = linesProcessed + 1
            /\ parseFailures' = IF failed THEN parseFailures + 1 ELSE parseFailures
            /\ embeddingFailures' = IF called /\ got.err # "nil"
                                    THEN embeddingFailures + 1 ELSE embeddingFailures
            /\ writeFailures' = IF embOk /\ ~writeOk
                                THEN writeFailures + 1 ELSE writeFailures
            /\ successCount' = IF wrote THEN successCount + 1 ELSE successCount
            /\ sink' = IF wrote THEN Append(sink, row) ELSE sink
            /\ eTrace' = Append(eTrace,
                   [line |-> n, parsed |-> ~failed, embedCalled |-> called,
                    text |-> IF called THEN got.body ELSE <<>>,
                    embedOk |-> embOk, wrote |-> wrote,
                    row |-> IF wrote THEN row ELSE <<>>])
    /\ UNCHANGED <<inputFile, ePc>>
    /\ UNCHANGED otherThanEmbed

\* scanner.Scan() returns false: the summary is logged and the pass returns
EmbedSummary ==
    /\ ePc = "scan"
    /\ eLineNumber = Len(inputFile)
    /\ ePc' = "done"
    /\ UNCHANGED <<inputFile, eLineNumber, linesProcessed, parseFailures,
                   embeddingFailures, writeFailures, successCount, sink, eTrace>>
    /\ UNCHANGED otherThanEmbed

EmbedIdle ==
    /\ inputFile = <<>>
    /\ ePc = "idle"
    /\ eLineNumber = 0
    /\ linesProcessed = 0
    /\ parseFailures = 0
    /\ embeddingFailures = 0
    /\ writeFailures = 0
    /\ successCount = 0
    /\ sink = <<>>
    /\ eTrace = <<>>

-----------------------------------------------------------------------------
(* Configuration constants of package upsert / package main                *)

indexName == "whatsapp-chat"
indexDimension == 1536
indexMetric == "cosine"
topK == 1

StatusOK == 200
StatusCreated == 201

-----------------------------------------------------------------------------
(* Ensure collection: GetOrCreatePineconeIndex                             *)

\* What a control-plane or data-plane call may end in: no response at all
\* (client.Do returns an error) or a response with a status code.
TransportError == 0
ConnectOutcomes == { TransportError, 200, 404, 500 }
CreateOutcomes == { TransportError, 200, 201, 400, 409 }

\* the JSON body of the create request
CreateBody(name) == [name |-> name, dimension |-> indexDimension, metric |-> indexMetric]

\* does the connect response send GetOrCreatePineconeIndex on to create the index?
IndexMissing(status) == status # StatusOK

\* a create that takes nothing but 200 for created
CreateSucceededOnlyOK(status) == status = StatusOK

\* does the create response count as created?
CreateSucceeded(status) == status = StatusOK \/ status = StatusCreated

\* Step 1: the GET that connects to the index
IndexConnect ==
    /\ uPc = "connect"
    /\ \E out \in ConnectOutcomes :
         /\ uCalls' = Append(uCalls, [kind |-> "connect", name |-> indexName,
                                      body |-> <<>>, outcome |-> out])
         /\ IF out = TransportError
            THEN /\ indexResult' = "error"
                 /\ uPc' = "fatal"        \* main: log.Fatalf
            ELSE IF IndexMissing(out)
                 THEN /\ indexResult' = "none"
                      /\ uPc' = "create"
                 ELSE /\ indexResult' = "nil"
                      /\ uPc' = "whoami"  \* main goes on to UpsertDataToPinecone
    /\ UNCHANGED <<csvFile, uLineNumber, uSuccessCount, uFailCount, uTrace>>
    /\ UNCHANGED otherThanUpsert

\* Step 2: the POST that creates the index
IndexCreate ==
    /\ uPc = "create"
    /\ \E out \in CreateOutcomes :
         /\ uCalls' = Append(uCalls, [kind |-> "create", name |-> indexName,
                                      body |-> CreateBody(indexName), outcome |-> out])
         /\ IF out # TransportError /\ CreateSucceeded(out)
            THEN /\ indexResult' = "nil"
                 /\ uPc' = "whoami"
            ELSE /\ indexResult' = "error"
                 /\ uPc' = "fatal"
    /\ UNCHANGED <<csvFile, uLineNumber, uSuccessCount, uFailCount, uTrace>>
    /\ UNCHANGED otherThanUpsert

-----------------------------------------------------------------------------
(* Bulk write: UpsertDataToPinecone                                        *)

\* strings.Split(line, ","): never empty, Split("") = [""]
RECURSIVE SplitFrom(_, _, _)
SplitFrom(s, i, field) ==
    IF i > Len(s) THEN << field >>
    ELSE IF s[i] = "," THEN << field >> \o SplitFrom(s, i + 1, <<>>)
    ELSE SplitFrom(s, i + 1, Append(field, s[i]))

Split(line) == SplitFrom(line, 1, <<>>)

Digits == { "0", "1", "2" }
DigitValue(c) == IF c = "1" THEN 1 ELSE IF c = "2" THEN 2 ELSE 0

RECURSIVE DecimalValue(_)
DecimalValue(s) ==
    IF s = <<>> THEN 0
    ELSE 10 * DecimalValue(SubSeq(s, 1, Len(s) - 1)) + DigitValue(s[Len(s)])

\* a float64 of the upsert pass: a number, or NaN
Float(n) == [nan |-> FALSE, n |-> n]
NaN == [nan |-> TRUE, n |-> 0]

\* strconv.ParseFloat(v, 64) on the texts the model writes: a run of digits is
\* that number, "NaN" is the float NaN, anything else is a syntax error and
\* the value returned with the error is 0
ParseFloat(v) ==
    IF v # <<>> /\ \A k \in 1..Len(v) : v[k] \in Digits
    THEN [value |-> Float(DecimalValue(v)), err |-> FALSE]
    ELSE IF v = <<"N", "a", "N">> THEN [value |-> NaN, err |-> FALSE]
    ELSE [value |-> Float(0), err |-> TRUE]

\* the inner loop over valuesStr: every field is parsed and stored, an error
\* is logged
ParseRow(valuesStr) ==
    [values    |-> [i \in 1..Len(valuesStr) |-> ParseFloat(valuesStr[i]).value],
     parseErrs |-> { i \in 1..Len(valuesStr) : ParseFloat(valuesStr[i]).err }]

\* does the row go on to be marshalled and sent after its fields were parsed?
RowSkipped(parsed) == FALSE

\* json.Marshal(data) fails on a NaN
MarshalFails(values) == \E i \in 1..Len(values) : values[i].nan

VectorID(n) == << "vector_id_", n >>

SampleRows ==
    { <<"1", "2", ",", "2">>,
      <<"1", ",", "x">>,
      <<>>,
      <<"N", "a", "N", ",", "1">>,
      <<"2", "1">> }

WhoamiResponses ==
    { [kind |-> "transport_error", project_name |-> "none"],
      [kind |-> "bad_json",        project_name |-> "none"],
      [kind |-> "json",            project_name |-> "none"],   \* no such string field
      [kind |-> "json",            project_name |-> "proj"] }

UpsertOutcomes == { TransportError, 200, 202, 304, 400, 503 }

UpsertStart ==
    /\ csvFile \in SeqsUpTo(SampleRows, MaxRows)
    /\ uPc = "connect"
    /\ indexResult = "none"
    /\ uCalls = <<>>
    /\ uLineNumber = 0
    /\ uSuccessCount = 0
    /\ uFailCount = 0
    /\ uTrace = <<>>

UpsertIdle ==
    /\ csvFile = <<>>
    /\ uPc = "idle"
    /\ indexResult = "none"
    /\ uCalls = <<>>
    /\ uLineNumber = 0
    /\ uSuccessCount = 0
    /\ uFailCount = 0
    /\ uTrace = <<>>

\* Step 1 of UpsertDataToPinecone: the whoami call, then os.Open(filePath)
UpsertWhoami ==
    /\ uPc = "whoami"
    /\ \E resp \in WhoamiResponses, fileOpens \in BOOLEAN :
         /\ uCalls' = Append(uCalls, [kind |-> "whoami", name |-> indexName,
                                      body |-> <<>>, outcome |-> resp.kind])
         /\ uPc' = IF resp.kind # "json" THEN "failed"      \* return err
                   ELSE IF resp.project_name = "none" THEN "panic"
                   ELSE IF ~fileOpens THEN "fatal"          \* log.Fatalf
                   ELSE "scan"
    /\ UNCHANGED <<csvFile, indexResult, uLineNumber, uSuccessCount, uFailCount, uTrace>>
    /\ UNCHANGED otherThanUpsert

\* One iteration of the scanner loop: one row parsed, marshalled and sent.
UpsertRow ==
    /\ uPc = "scan"
    /\ uLineNumber < Len(csvFile)
    /\ \E out \in UpsertOutcomes :
         LET n       == uLineNumber + 1
             parsed  == ParseRow(Split(csvFile[n]))
             skipped == RowSkipped(parsed)
             sent    == ~skipped /\ ~MarshalFails(parsed.values)
             failed  == sent /\ (out = TransportError \/ out >= 400)
             ok      == sent /\ ~failed
         IN /\ uLineNumber' = n
            /\ uFailCount' = IF failed THEN uFailCount + 1 ELSE uFailCount
            /\ uSuccessCount' = IF ok THEN uSuccessCount + 1 ELSE uSuccessCount
            /\ uTrace' = Append(uTrace,
                   [line |-> n, parseError |-> parsed.parseErrs # {},
                    sent |-> sent,
                    id |-> IF sent THEN VectorID(n) ELSE <<>>,
                    values |-> IF sent THEN parsed.values ELSE <<>>,
                    outcome |-> IF sent THEN out ELSE TransportError,
                    counted |-> IF ok THEN "success"
                                ELSE IF failed THEN "failure" ELSE "none"])
    /\ UNCHANGED <<csvFile, uPc, indexResult, uCalls>>
    /\ UNCHANGED otherThanUpsert

\* scanner.Scan() returns false: the summary is logged and the pass returns
UpsertSummary ==
    /\ uPc = "scan"
    /\ uLineNumber = Len(csvFile)
    /\ uPc' = "done"
    /\ UNCHANGED <<csvFile, indexResult, uCalls, uLineNumber, uSuccessCount,
                   uFailCount, uTrace>>
    /\ UNCHANGED otherThanUpsert

-----------------------------------------------------------------------------
(* Query: queryPinecone and the interactive loop                           *)
(* promptUserAndQueryPinecone                                              *)

\* the white space strings.TrimSpace removes, among the characters of the model
TrimSet == { " ", "\t", "\r", "\n" }

RECURSIVE TrimLeft(_)
TrimLeft(s) == IF s # <<>> /\ Head(s) \in TrimSet THEN TrimLeft(Tail(s)) ELSE s

RECURSIVE TrimRight(_)
TrimRight(s) ==
    IF s # <<>> /\ s[Len(s)] \in TrimSet THEN TrimRight(SubSeq(s, 1, Len(s) - 1)) ELSE s

TrimSpace(s) == TrimRight(TrimLeft(s))

LowerOf(c) ==
    CASE c = "E" -> "e" [] c = "N" -> "n" [] c = "D" -> "d"
      [] c = "H" -> "h" [] c = "I" -> "i" [] OTHER -> c

\* a comparison that forgets the letter case
ToLowerMissing(s) == s

\* strings.ToLower
ToLower(s) == [k \in 1..Len(s) |-> LowerOf(s[k])]

\* What reader.ReadString('\n') may return: a line with its newline and no
\* error, or what was left before the end of the input together with io.EOF.
Reads ==
    { [text |-> <<"e", "n", "d", "\n">>,              err |-> FALSE],
      [text |-> <<"E", "N", "D", "\r", "\n">>,        err |-> FALSE],
      [text |-> <<" ", "E", "n", "d", "\t", "\n">>,   err |-> FALSE],
      [text |-> <<"e", "n", "d", " ", "x", "\n">>,    err |-> FALSE],
      [text |-> <<"e", " ", "n", "d", "\n">>,         err |-> FALSE],
      [text |-> <<"h", "i", "\n">>,                   err |-> FALSE],
      [text |-> <<"\n">>,                             err |-> FALSE],
      [text |-> <<"e", "n", "d">>,                    err |-> TRUE],
      [text |-> <<>>,                                 err |-> TRUE] }

\* the comparison that ends the loop
IsEndCommand(msg) == ToLower(msg) = <<"e", "n", "d">>

\* A match of the similarity response: its identifier and its values field.
Match(id, values) == [id |-> id, values |-> values]

\* What the similarity endpoint may answer.
QueryResponses ==
    { [kind |-> "transport_error", matches |-> <<>>],
      [kind |-> "bad_json",        matches |-> <<>>],
      [kind |-> "json",            matches |-> <<>>],
      [kind |-> "json",            matches |-> << Match("a", <<>>) >>],
      [kind |-> "json",            matches |-> << Match("b", <<>>) >>],
      [kind |-> "json",            matches |-> << Match("%zz", <<>>) >>],
      [kind |-> "json",            matches |-> << Match("a", <<>>), Match("b", <<>>) >>] }

\* What the fetch endpoint may answer; vectors maps identifiers to values.
FetchResponses ==
    { [kind |-> "transport_error", vectors |-> <<>>],
      [kind |-> "bad_json",        vectors |-> <<>>],
      [kind |-> "json",            vectors |-> <<>>],
      [kind |-> "json",            vectors |-> << Match("a", <<5>>) >>],
      [kind |-> "json",            vectors |-> << Match("a", <<5>>), Match("b", <<6, 7>>) >>] }

\* fetchResponse.Vectors[id]: the entry and whether it exists
Lookup(vectors, id) ==
    IF \E k \in 1..Len(vectors) : vectors[k].id = id
    THEN [exists |-> TRUE,
          values |-> vectors[CHOOSE k \in 1..Len(vectors) : vectors[k].id = id].values]
    ELSE [exists |-> FALSE, values |-> <<>>]

\* http.NewRequest fails when the URL does not parse: an identifier with a
\* malformed percent escape
BadURL(id) == id = "%zz"

\* the outcome of building, sending and decoding one fetch-by-ID
FetchOutcome(id, resp) ==
    IF BadURL(id) THEN "build_error"
    ELSE IF resp.kind = "transport_error" THEN "send_error"
    ELSE IF resp.kind = "bad_json" THEN "decode_error"
    ELSE "nil"

\* the loop variable of `for _, match := range matches` after the body: a
\* copy of the element, with the fetched values when the entry exists
MatchAfterFetch(match, entry) ==
    IF entry.exists THEN [match EXCEPT !.values = entry.values] ELSE match

\* a queryPinecone that drops the matches left without values
ReturnedMatchesWithValues(matches, copies) ==
    SelectSeq(copies, LAMBDA c : c.values # <<>>)

\* what queryPinecone returns when every fetch went through: the slice
\* decoded from the similarity response (the loop wrote to copies only)
ReturnedMatches(matches, copies) == matches

\* a loop that gives up on any error of queryPinecone
AfterQueryErrorReturn == "error"

\* a loop that carries on after a failed fetch of its own
AfterLoopFetchErrorContinue == "prompt"

\* queryPinecone's answer to a failed fetch is (nil, err); what does the
\* caller's `if err != nil` branch do with it?
AfterQueryError == "prompt"      \* log and continue

\* a failed fetch in the loop of promptUserAndQueryPinecone itself
AfterLoopFetchError == "error"   \* return err

QueryStart ==
    /\ qPc = "prompt"
    /\ qCount = 0
    /\ qInput = [text |-> <<>>, err |-> FALSE]
    /\ queryMessage = <<>>
    /\ qVector = <<>>
    /\ qCalls = <<>>
    /\ qResponse = <<>>
    /\ qIdx = 0
    /\ qCopies = <<>>
    /\ qFetched = <<>>
    /\ qReturned = <<>>
    /\ qErr = "none"
    /\ qShown = <<>>

\* the state of one iteration before anything was read
ResetIteration ==
    /\ qVector' = <<>>
    /\ qResponse' = <<>>
    /\ qIdx' = 0
    /\ qCopies' = <<>>
    /\ qFetched' = <<>>
    /\ qReturned' = <<>>
    /\ qErr' = "none"
    /\ qShown' = <<>>

\* AwaitingInput: the prompt is printed and one line is read
ReadInput ==
    /\ qPc = "prompt"
    /\ qCount < MaxQueries
    /\ \E rd \in Reads :
         /\ qInput' = rd
         /\ qCount' = qCount + 1
         /\ qCalls' = <<>>
         /\ ResetIteration
         /\ IF rd.err THEN qPc' = "error"
            ELSE IF IsEndCommand(TrimSpace(rd.text)) THEN qPc' = "exited"
            ELSE qPc' = "embedding"
         /\ queryMessage' = IF rd.err THEN <<>> ELSE TrimSpace(rd.text)
    /\ UNCHANGED otherThanQuery

\* Embedding: queryPinecone asks the embedding client for the query vector
QueryEmbed ==
    /\ qPc = "embedding"
    /\ \E resp \in EmbedResponses :
         LET got == GetEmbedding(queryMessage, resp) IN
         /\ qCalls' = Append(qCalls, [kind |-> "embed", id |-> "", topK |-> 0,
                                      resp |-> resp])
         /\ IF got.err # "nil"
            THEN /\ qErr' = got.err
                 /\ qPc' = AfterQueryError
                 /\ UNCHANGED qVector
            ELSE /\ qVector' = got.embedding
                 /\ qPc' = "querying"
                 /\ UNCHANGED qErr
    /\ UNCHANGED <<qCount, qInput, queryMessage, qResponse, qIdx, qCopies, qFetched,
                   qReturned, qShown>>
    /\ UNCHANGED otherThanQuery

\* Querying: the POST to the similarity endpoint and the decoding of its answer
QuerySimilarity ==
    /\ qPc = "querying"
    /\ \E resp \in QueryResponses :
         /\ qCalls' = Append(qCalls, [kind |-> "query", id |-> "", topK |-> topK,
                                      resp |-> resp])
         /\ IF resp.kind # "json"
            THEN /\ qErr' = resp.kind
                 /\ qPc' = AfterQueryError
                 /\ UNCHANGED qResponse
            ELSE /\ qResponse' = resp.matches
                 /\ qPc' = "fetching"
                 /\ UNCHANGED qErr
    /\ UNCHANGED <<qCount, qInput, queryMessage, qVector, qIdx, qCopies, qFetched,
                   qReturned, qShown>>
    /\ UNCHANGED otherThanQuery

\* Fetching: one iteration of queryPinecone's loop over the matches
QueryFetch ==
    /\ qPc = "fetching"
    /\ qIdx < Len(qResponse)
    /\ \E resp \in FetchResponses :
         LET match == qResponse[qIdx + 1]
             out   == FetchOutcome(match.id, resp)
             entry == Lookup(resp.vectors, match.id)
         IN /\ qCalls' = Append(qCalls, [kind |-> "fetch", id |-> match.id, topK |-> 0,
                                         resp |-> IF out = "build_error"
                                                  THEN [kind |-> "not sent", vectors |-> <<>>]
                                                  ELSE resp])
            /\ IF out # "nil"
               THEN /\ qErr' = out
                    /\ qPc' = AfterQueryError
                    /\ UNCHANGED <<qIdx, qCopies, qFetched>>
               ELSE /\ qIdx' = qIdx + 1
                    /\ qCopies' = Append(qCopies, MatchAfterFetch(match, entry))
                    /\ qFetched' = Append(qFetched, entry)
                    /\ UNCHANGED <<qErr, qPc>>
    /\ UNCHANGED <<qCount, qInput, queryMessage, qVector, qResponse, qReturned, qShown>>
    /\ UNCHANGED otherThanQuery

\* queryPinecone returns (matches, nil) to the loop
QueryReturn ==
    /\ qPc = "fetching"
    /\ qIdx = Len(qResponse)
    /\ qReturned' = ReturnedMatches(qResponse, qCopies)
    /\ qErr' = "nil"
    /\ qIdx' = 0
    /\ qPc' = "displaying"
    /\ UNCHANGED <<qCount, qInput, queryMessage, qVector, qCalls, qResponse, qCopies,
                   qFetched, qShown>>
    /\ UNCHANGED otherThanQuery

\* Displaying: one iteration of the loop's own fetch over the returned matches
LoopFetch ==
    /\ qPc = "displaying"
    /\ qIdx < Len(qReturned)
    /\ \E resp \in FetchResponses :
         LET match == qReturned[qIdx + 1]
             out   == FetchOutcome(match.id, resp)
             entry == Lookup(resp.vectors, match.id)
         IN /\ qCalls' = Append(qCalls, [kind |-> "loopfetch", id |-> match.id, topK |-> 0,
                                         resp |-> IF out = "build_error"
                                                  THEN [kind |-> "not sent", vectors |-> <<>>]
                                                  ELSE resp])
            /\ IF out # "nil"
               THEN /\ qPc' = AfterLoopFetchError
                    /\ UNCHANGED <<qIdx, qShown>>
               ELSE /\ qIdx' = qIdx + 1
                    /\ qShown' = Append(qShown, entry)
                    /\ UNCHANGED qPc
    /\ UNCHANGED <<qCount, qInput, queryMessage, qVector, qResponse, qCopies, qFetched,
                   qReturned, qErr>>
    /\ UNCHANGED otherThanQuery

\* the matches are exhausted: back to the prompt
LoopAgain ==
    /\ qPc = "displaying"
    /\ qIdx = Len(qReturned)
    /\ qPc' = "prompt"
    /\ UNCHANGED <<qCount, qInput, queryMessage, qVector, qCalls, qResponse, qIdx,
                   qCopies, qFetched, qReturned, qErr, qShown>>
    /\ UNCHANGED otherThanQuery

QueryIdle ==
    /\ qPc = "idle"
    /\ qCount = 0
    /\ qInput = [text |-> <<>>, err |-> FALSE]
    /\ queryMessage = <<>>
    /\ qVector = <<>>
    /\ qCalls = <<>>
    /\ qResponse = <<>>
    /\ qIdx = 0
    /\ qCopies = <<>>
    /\ qFetched = <<>>
    /\ qReturned = <<>>
    /\ qErr = "none"
    /\ qShown = <<>>

-----------------------------------------------------------------------------
(* The CLI driver: main                                                    *)

enFileToEmbedPath == "./en_files/en_chat.txt"
heFileToEmbedPath == "./he_files/he_chat.txt"
enEmbeddedCSVPath == "./en_files/en_embeddings.csv"
heEmbeddedCSVPath == "./he_files/he_embeddings.csv"

WordEmbed  == <<"e", "m", "b", "e", "d">>
WordUpsert == <<"u", "p", "s", "e", "r", "t">>
WordQuery  == <<"q", "u", "e", "r", "y">>
WordDance  == <<"d", "a", "n", "c", "e">>
LangHe     == <<"h", "e">>
LangEn     == <<"e", "n">>
LangFr     == <<"f", "r">>

\* strings.Fields: the maximal runs of characters that are not white space
RECURSIVE FieldsFrom(_, _, _)
FieldsFrom(s, i, word) ==
    LET done == IF word = <<>> THEN <<>> ELSE << word >> IN
    IF i > Len(s) THEN done
    ELSE IF s[i] \in TrimSet THEN done \o FieldsFrom(s, i + 1, <<>>)
    ELSE FieldsFrom(s, i + 1, Append(word, s[i]))

Fields(s) == FieldsFrom(s, 1, <<>>)

\* the lines the operator may type at "What is the action?"
ActionLines ==
    { <<"\n">>,
      WordEmbed \o <<"\n">>,
      WordUpsert \o <<" ">> \o WordQuery \o <<"\n">>,
      <<" ">> \o WordQuery \o <<" ", " ">> \o WordEmbed \o <<"\n">>,
      WordDance \o <<" ">> \o WordEmbed \o <<"\n">> }

\* the lines the operator may type at "Choose language (en/he): "
LangLines ==
    { LangHe \o <<"\n">>,
      <<" ">> \o LangEn \o <<"\r", "\n">>,
      LangFr \o <<"\n">> }

\* is this language code one main goes on with?
LangAccepted(lang) == lang = LangHe

\* the input file and the embeddings file main works on for a language
FilesFor(lang) ==
    IF lang = LangHe
    THEN [input |-> heFileToEmbedPath, embeddings |-> heEmbeddedCSVPath]
    ELSE [input |-> enFileToEmbedPath, embeddings |-> enEmbeddedCSVPath]

\* getPcProjectID against the whoami response resp
getPcProjectID(resp) ==
    IF resp.kind = "transport_error" THEN [id |-> "", err |-> "http"]
    ELSE IF resp.kind = "bad_json" THEN [id |-> "", err |-> "decode"]
    ELSE IF resp.project_name = "none" THEN [id |-> "", err |-> "project_name not found"]
    ELSE [id |-> resp.project_name, err |-> "nil"]

\* what the query case does with the error of getPcProjectID:
\* `pcProjectID, _ := getPcProjectID(log)` goes on to the prompt with any error
QueryCaseAfterWhoami(err) == "query"

MainStart ==
    /\ mPc = "action"
    /\ mActions = <<>>
    /\ mIdx = 0
    /\ mLang = <<>>
    /\ inputFileName = enFileToEmbedPath
    /\ embeddingsFileName = enEmbeddedCSVPath
    /\ mOutput = <<>>
    /\ mRan = <<>>
    /\ pcProjectID = ""
    /\ whoamiErr = "none"

MainIdle ==
    /\ mPc = "idle"
    /\ mActions = <<>>
    /\ mIdx = 0
    /\ mLang = <<>>
    /\ inputFileName = enFileToEmbedPath
    /\ embeddingsFileName = enEmbeddedCSVPath
    /\ mOutput = <<>>
    /\ mRan = <<>>
    /\ pcProjectID = ""
    /\ whoamiErr = "none"

componentVars == <<embedVars, upsertVars, queryVars>>

\* "What is the action?": the line is read, trimmed and split into fields
MainReadAction ==
    /\ mPc = "action"
    /\ \E line \in ActionLines :
         LET actions == Fields(TrimSpace(line)) IN
         /\ mActions' = actions
         /\ IF Len(actions) = 0
            THEN /\ mOutput' = mOutput \o <<"What is the action?", "No action specified.">>
                 /\ mPc' = "returned"
            ELSE /\ mOutput' = mOutput \o <<"What is the action?", "Choose language (en/he): ">>
                 /\ mPc' = "lang"
    /\ UNCHANGED <<mIdx, mLang, inputFileName, embeddingsFileName, mRan, pcProjectID,
                   whoamiErr>>
    /\ UNCHANGED componentVars

\* "Choose language (en/he): ": the code is read and the file pair chosen
MainReadLang ==
    /\ mPc = "lang"
    /\ \E line \in LangLines :
         LET lang == TrimSpace(line) IN
         /\ mLang' = lang
         /\ IF LangAccepted(lang)
            THEN /\ inputFileName' = FilesFor(lang).input
                 /\ embeddingsFileName' = FilesFor(lang).embeddings
                 /\ mPc' = "dispatch"
                 /\ UNCHANGED mOutput
            ELSE /\ mOutput' = Append(mOutput, "Unknown language.")
                 /\ mPc' = "returned"
                 /\ UNCHANGED <<inputFileName, embeddingsFileName>>
    /\ UNCHANGED <<mActions, mIdx, mRan, pcProjectID, whoamiErr>>
    /\ UNCHANGED componentVars

NextAction == mActions[mIdx + 1]

\* case "embed": CreateEmbeddingFile is called; it dies in log.Fatalf when
\* one of its two files cannot be opened
MainStartEmbed ==
    /\ mPc = "dispatch"
    /\ mIdx < Len(mActions)
    /\ NextAction = WordEmbed
    /\ mRan' = Append(mRan, NextAction)
    /\ \E filesOpen \in BOOLEAN, lines \in SeqsUpTo(SampleLines, MaxLines) :
         IF filesOpen
         THEN /\ inputFile' = lines
              /\ ePc' = "scan"
              /\ mPc' = "embed"
         ELSE /\ mPc' = "fatal"
              /\ UNCHANGED <<inputFile, ePc>>
    /\ UNCHANGED <<eLineNumber, linesProcessed, parseFailures, embeddingFailures,
                   writeFailures, successCount, sink, eTrace>>
    /\ UNCHANGED <<mActions, mIdx, mLang, inputFileName, embeddingsFileName, mOutput,
                   pcProjectID, whoamiErr>>
    /\ UNCHANGED <<upsertVars, queryVars>>

\* CreateEmbeddingFile returned nil: the log is synced, on to the next action
MainEmbedDone ==
    /\ mPc = "embed"
    /\ ePc = "done"
    /\ mIdx' = mIdx + 1
    /\ mPc' = "dispatch"
    /\ inputFile' = <<>>
    /\ ePc' = "idle"
    /\ eLineNumber' = 0
    /\ linesProcessed' = 0
    /\ parseFailures' = 0
    /\ embeddingFailures' = 0
    /\ writeFailures' = 0
    /\ successCount' = 0
    /\ sink' = <<>>
    /\ eTrace' = <<>>
    /\ UNCHANGED <<mActions, mLang, inputFileName, embeddingsFileName, mOutput, mRan,
                   pcProjectID, whoamiErr>>
    /\ UNCHANGED <<upsertVars, queryVars>>

\* case "upsert": GetOrCreatePineconeIndex, then UpsertDataToPinecone
MainStartUpsert ==
    /\ mPc = "dispatch"
    /\ mIdx < Len(mActions)
    /\ NextAction = WordUpsert
    /\ mRan' = Append(mRan, NextAction)
    /\ csvFile' \in SeqsUpTo(SampleRows, MaxRows)
    /\ uPc' = "connect"
    /\ mPc' = "upsert"
    /\ UNCHANGED <<indexResult, uCalls, uLineNumber, uSuccessCount, uFailCount, uTrace>>
    /\ UNCHANGED <<mActions, mIdx, mLang, inputFileName, embeddingsFileName, mOutput,
                   pcProjectID, whoamiErr>>
    /\ UNCHANGED <<embedVars, queryVars>>

\* the upsert case is over: the pass returned nil (next action), returned an
\* error (printed, main returns), or the process died
MainUpsertDone ==
    /\ mPc = "upsert"
    /\ uPc \in {"done", "failed", "fatal", "panic"}
    /\ IF uPc = "done"
       THEN /\ mIdx' = mIdx + 1
            /\ mPc' = "dispatch"
            /\ csvFile' = <<>>
            /\ uPc' = "idle"
            /\ indexResult' = "none"
            /\ uCalls' = <<>>
            /\ uLineNumber' = 0
            /\ uSuccessCount' = 0
            /\ uFailCount' = 0
            /\ uTrace' = <<>>
            /\ UNCHANGED mOutput
       ELSE /\ mPc' = IF uPc = "failed" THEN "returned" ELSE uPc
            /\ mOutput' = IF uPc = "failed"
                          THEN Append(mOutput, "Failed upserting data to pinecone")
                          ELSE mOutput
            /\ UNCHANGED <<mIdx, upsertVars>>
    /\ UNCHANGED <<mActions, mLang, inputFileName, embeddingsFileName, mRan,
                   pcProjectID, whoamiErr>>
    /\ UNCHANGED <<embedVars, queryVars>>

\* case "query": first getPcProjectID
MainStartQuery ==
    /\ mPc = "dispatch"
    /\ mIdx < Len(mActions)
    /\ NextAction = WordQuery
    /\ mRan' = Append(mRan, NextAction)
    /\ mPc' = "whoami"
    /\ UNCHANGED <<mActions, mIdx, mLang, inputFileName, embeddingsFileName, mOutput,
                   pcProjectID, whoamiErr>>
    /\ UNCHANGED componentVars

\* getPcProjectID answers; promptUserAndQueryPinecone is called with its id
MainWhoami ==
    /\ mPc = "whoami"
    /\ \E resp \in WhoamiResponses :
         LET got == getPcProjectID(resp) IN
         /\ pcProjectID' = got.id
         /\ whoamiErr' = got.err
         /\ mPc' = QueryCaseAfterWhoami(got.err)
         /\ qPc' = IF QueryCaseAfterWhoami(got.err) = "query" THEN "prompt" ELSE qPc
    /\ UNCHANGED <<qCount, qInput, queryMessage, qVector, qCalls, qResponse, qIdx,
                   qCopies, qFetched, qReturned, qErr, qShown>>
    /\ UNCHANGED <<mActions, mIdx, mLang, inputFileName, embeddingsFileName, mOutput,
                   mRan>>
    /\ UNCHANGED <<embedVars, upsertVars>>

\* promptUserAndQueryPinecone returned: nil (next action) or an error
\* (printed, then log.Fatalf)
MainQueryDone ==
    /\ mPc = "query"
    /\ qPc \in {"exited", "error"}
    /\ IF qPc = "exited"
       THEN /\ mIdx' = mIdx + 1
            /\ mPc' = "dispatch"
            /\ qPc' = "idle"
            /\ qCount' = 0
            /\ qInput' = [text |-> <<>>, err |-> FALSE]
            /\ queryMessage' = <<>>
            /\ qCalls' = <<>>
            /\ ResetIteration
            /\ pcProjectID' = ""
            /\ whoamiErr' = "none"
            /\ UNCHANGED mOutput
       ELSE /\ mPc' = "fatal"
            /\ mOutput' = Append(mOutput, "Error in the query proces: ")
            /\ UNCHANGED <<mIdx, queryVars, pcProjectID, whoamiErr>>
    /\ UNCHANGED <<mActions, mLang, inputFileName, embeddingsFileName, mRan>>
    /\ UNCHANGED <<embedVars, upsertVars>>

\* default: an action main does not know
MainUnknownAction ==
    /\ mPc = "dispatch"
    /\ mIdx < Len(mActions)
    /\ NextAction \notin {WordEmbed, WordUpsert, WordQuery}
    /\ mOutput' = Append(mOutput, "Unknown action: ")
    /\ mPc' = "returned"
    /\ UNCHANGED <<mActions, mIdx, mLang, inputFileName, embeddingsFileName, mRan,
                   pcProjectID, whoamiErr>>
    /\ UNCHANGED componentVars

\* the for loop over the actions is over: main returns
MainReturn ==
    /\ mPc = "dispatch"
    /\ mIdx = Len(mActions)
    /\ mPc' = "returned"
    /\ UNCHANGED <<mActions, mIdx, mLang, inputFileName, embeddingsFileName, mOutput,
                   mRan, pcProjectID, whoamiErr>>
    /\ UNCHANGED componentVars

-----------------------------------------------------------------------------
(* Specifications                                                          *)

EmbedInit == EmbedStart /\ UpsertIdle /\ QueryIdle /\ MainIdle
EmbedNext == ScanLine \/ EmbedSummary
SpecEmbed == EmbedInit /\ [][EmbedNext]_vars

UpsertInit == UpsertStart /\ EmbedIdle /\ QueryIdle /\ MainIdle
UpsertNext == IndexConnect \/ IndexCreate \/ UpsertWhoami \/ UpsertRow \/ UpsertSummary
SpecUpsert == UpsertInit /\ [][UpsertNext]_vars

QueryInit == QueryStart /\ EmbedIdle /\ UpsertIdle /\ MainIdle
QueryNext ==
    ReadInput \/ QueryEmbed \/ QuerySimilarity \/ QueryFetch \/ QueryReturn
      \/ LoopFetch \/ LoopAgain
SpecQuery == QueryInit /\ [][QueryNext]_vars

MainInit == MainStart /\ EmbedIdle /\ UpsertIdle /\ QueryIdle
MainNext ==
    \/ MainReadAction \/ MainReadLang
    \/ MainStartEmbed \/ MainEmbedDone
    \/ MainStartUpsert \/ MainUpsertDone
    \/ MainStartQuery \/ MainWhoami \/ MainQueryDone
    \/ MainUnknownAction \/ MainReturn
    \/ EmbedNext \/ UpsertNext \/ QueryNext
SpecMain == MainInit /\ [][MainNext]_vars

-----------------------------------------------------------------------------
(* Properties of the embed pass                                            *)

Unparseable == { i \in DOMAIN eTrace : ~eTrace[i].parsed }
EmbedFailedParseable ==
    { i \in DOMAIN eTrace :
        eTrace[i].parsed /\ eTrace[i].embedCalled /\ ~eTrace[i].embedOk }
WrittenLines == SelectSeq(eTrace, LAMBDA t : t.wrote)

\* C1: when the embed pass has logged its summary, successes = N - P - E for
\* the N lines of the input, its P unparseable lines and its E parseable lines
\* whose embedding call failed; exactly `successes` rows are in the sink, and
\* they are the rows of the lines they came from, in line order.
C1_SummaryAsClaimed ==
    ePc = "done" =>
        /\ successCount =
               Len(inputFile) - Cardinality(Unparseable) - Cardinality(EmbedFailedParseable)
        /\ Len(sink) = successCount
        /\ sink = [k \in 1..Len(WrittenLines) |-> WrittenLines[k].row]
        /\ \A j, k \in 1..Len(WrittenLines) :
               j < k => WrittenLines[j].line < WrittenLines[k].line

\* C2: a line that fails to parse is counted as a parse failure and skipped:
\* no embedding call is issued for it and no row is written for it; the pass
\* still goes through every line of the input.
C2_ParseFailureSkipsLine ==
    /\ parseFailures = Cardinality(Unparseable)
    /\ \A i \in DOMAIN eTrace :
           ~eTrace[i].parsed => ~eTrace[i].embedCalled /\ ~eTrace[i].wrote
    /\ ePc = "done" => linesProcessed = Len(inputFile)

-----------------------------------------------------------------------------
(* Properties of the upsert action                                         *)

ParseErrorRows == { i \in DOMAIN uTrace : uTrace[i].parseError }

\* C3: a row holding a value that is not a valid float is skipped: no upsert
\* call is attempted for it.
C3_BadFloatRowNotWritten ==
    \A i \in DOMAIN uTrace : uTrace[i].parseError => ~uTrace[i].sent

\* C4: when the upsert pass has logged its summary, successes + failures is
\* the number of rows read less the rows that had a float-parse error, and no
\* row with a float-parse error is counted as a success or as a failure.
C4_SummaryAsClaimed ==
    uPc = "done" =>
        /\ uSuccessCount + uFailCount = uLineNumber - Cardinality(ParseErrorRows)
        /\ \A i \in ParseErrorRows : uTrace[i].counted = "none"

IndexCalls == SelectSeq(uCalls, LAMBDA c : c.kind \in {"connect", "create"})
CreateCalls == SelectSeq(uCalls, LAMBDA c : c.kind = "create")

\* C7: once GetOrCreatePineconeIndex has returned, a create call was issued
\* exactly when the connect call completed with a status other than 200; it
\* carried the index name, dimension 1536 and metric cosine; the operation
\* returned nil exactly when connect gave 200 (and then no create was issued)
\* or the create status was 200 or 201, and an error otherwise; nothing was
\* called after the create.
C7_EnsureCollection ==
    /\ Len(IndexCalls) <= 2
    /\ Len(CreateCalls) <= 1
    /\ \A k \in DOMAIN IndexCalls : (IndexCalls[k].kind = "create") <=> (k = 2)
    /\ \A k \in DOMAIN CreateCalls :
           CreateCalls[k].body =
               [name |-> "whatsapp-chat", dimension |-> 1536, metric |-> "cosine"]
    /\ indexResult # "none" =>
           LET connect == IndexCalls[1] IN
           /\ (Len(CreateCalls) = 1) <=> (connect.outcome \notin {0, 200})
           /\ connect.outcome = 200 => indexResult = "nil"
           /\ connect.outcome = 0 => indexResult = "error"
           /\ Len(CreateCalls) = 1 =>
                  /\ (indexResult = "nil") <=> (CreateCalls[1].outcome \in {200, 201})
                  /\ (indexResult = "error") <=> (CreateCalls[1].outcome \notin {200, 201})
    /\ uPc = "create" => Len(IndexCalls) = 1 /\ IndexCalls[1].outcome \notin {0, 200}

C7_Witness ==
    /\ Len(CreateCalls) = 1
    /\ CreateCalls[1].outcome = 201
    /\ indexResult = "nil"

\* C13: a row whose upsert call completed with a status outside 200..299 is
\* counted as a failure and not as a success; a row is counted as a success
\* only when its upsert call returned a status in 200..299.
C13_Non2xxCountedFailed ==
    \A i \in DOMAIN uTrace :
        /\ uTrace[i].sent /\ uTrace[i].outcome # 0 /\ uTrace[i].outcome \notin 200..299
               => uTrace[i].counted = "failure"
        /\ uTrace[i].counted = "success"
               => uTrace[i].outcome # 0 /\ uTrace[i].outcome \in 200..299

-----------------------------------------------------------------------------
(* Properties of the query action                                          *)

QueryReturnedOK == qErr = "nil"

\* C5: every match queryPinecone returns has the values of the entry the
\* fetch-by-ID response held for its identifier, when there was one; when
\* there was none the match is returned all the same, with empty values.
C5_ReturnedValuesAreFetched ==
    QueryReturnedOK =>
        /\ Len(qReturned) = Len(qFetched)
        /\ \A i \in DOMAIN qReturned :
               /\ qFetched[i].exists => qReturned[i].values = qFetched[i].values
               /\ ~qFetched[i].exists => qReturned[i].values = <<>>

\* C6 as claimed: whatever the similarity response carries, queryPinecone
\* returns at most topK = 1 matches.
C6_AtMostTopK == QueryReturnedOK => Len(qReturned) <= 1

IDs(matches) == [k \in 1..Len(matches) |-> matches[k].id]

\* C6 as amended: queryPinecone returns the matches of the similarity
\* response, one for one and in the same order, and nothing on an error; every
\* similarity request asks for topK = 1; so the result has at most topK
\* matches whenever the response carries at most topK.
C6_ReturnsResponseMatches ==
    /\ QueryReturnedOK => IDs(qReturned) = IDs(qResponse)
    /\ ~QueryReturnedOK => qReturned = <<>>
    /\ \A k \in DOMAIN qCalls : qCalls[k].kind = "query" => qCalls[k].topK = 1
    /\ QueryReturnedOK /\ Len(qResponse) <= 1 => Len(qReturned) <= 1

C6_Witness == QueryReturnedOK /\ Len(qReturned) = 2

\* the text is "end" in any letter case, between white space only
EndTyped(text) ==
    \E i \in 1..Len(text) :
        /\ i + 2 <= Len(text)
        /\ text[i] \in {"e", "E"} /\ text[i + 1] \in {"n", "N"} /\ text[i + 2] \in {"d", "D"}
        /\ \A k \in 1..Len(text) :
               k < i \/ k > i + 2 => text[k] \in {" ", "\t", "\r", "\n"}

\* C8 as claimed: whenever the input is "end" (trimmed, any letter case) the
\* loop is in Exited, having returned nil, and no network call was issued
\* after the input was read.
C8_EndAlwaysExits ==
    EndTyped(qInput.text) => qPc = "exited" /\ qCalls = <<>>

\* C8 as amended: whenever a line read without error (one that ends in a
\* newline) is "end" (trimmed, any letter case) the loop is in Exited, having
\* returned nil, and no network call was issued after the line was read; the
\* loop is in Exited in no other case.
C8_EndLineExits ==
    /\ ~qInput.err /\ EndTyped(qInput.text) => qPc = "exited" /\ qCalls = <<>>
    /\ qPc = "exited" => ~qInput.err /\ EndTyped(qInput.text)

C8_Witness ==
    /\ qInput.text = <<" ", "E", "n", "d", "\t", "\n">>
    /\ qPc = "exited"
    /\ qCount = 2

LastCall == qCalls[Len(qCalls)]

\* a fetch request that could not be built ("not sent") or could not be sent
FetchFailed(call) == call.resp.kind \in {"not sent", "transport_error"}

\* C9 as claimed: a failure while building or sending a fetch-by-ID request
\* aborts the loop: it has returned the error.
C9_FetchFailureAborts ==
    qCalls # <<>> /\ LastCall.kind \in {"fetch", "loopfetch"} /\ FetchFailed(LastCall)
        => qPc = "error"

\* C9 as amended: a failure while sending a fetch-by-ID request issued by the
\* loop itself, after queryPinecone returned its matches, aborts the loop,
\* which returns the error; a failure while building or sending a fetch-by-ID
\* request inside queryPinecone makes queryPinecone return the error, after
\* which the loop is back in AwaitingInput.
C9_OnlyLoopFetchFailureAborts ==
    qCalls # <<>> /\ FetchFailed(LastCall) =>
        /\ LastCall.kind = "loopfetch" => qPc = "error" /\ qErr = "nil"
        /\ LastCall.kind = "fetch" => qPc = "prompt" /\ qErr \notin {"nil", "none"}

C9_Witness ==
    /\ qCalls # <<>>
    /\ LastCall.kind = "loopfetch"
    /\ LastCall.resp.kind = "transport_error"
    /\ qPc = "error"

\* the embedding call failed: nothing came back, it did not decode, or it
\* held no embedding
EmbedCallFailed(call) ==
    /\ call.kind = "embed"
    /\ \/ call.resp.kind # "json"
       \/ call.resp.data = <<>>
       \/ call.resp.data[1] = <<>>

\* the similarity call failed: nothing came back or it did not decode
QueryCallFailed(call) == call.kind = "query" /\ call.resp.kind # "json"

\* C10: after a failure while embedding the query string or while sending or
\* decoding the similarity query, the loop is back in AwaitingInput: it has
\* not returned, and no fetch call was issued in that iteration.
C10_QueryFailureContinues ==
    qCalls # <<>> /\ (EmbedCallFailed(LastCall) \/ QueryCallFailed(LastCall)) =>
        /\ qPc = "prompt"
        /\ \A k \in DOMAIN qCalls : qCalls[k].kind \notin {"fetch", "loopfetch"}

C10_Witness ==
    /\ qCalls # <<>>
    /\ QueryCallFailed(LastCall)
    /\ LastCall.resp.kind = "bad_json"
    /\ qPc = "prompt"
    /\ qCount = 2

-----------------------------------------------------------------------------
(* Properties of the CLI driver                                            *)

Printed(msg) == \E k \in DOMAIN mOutput : mOutput[k] = msg

\* the whoami call of the upsert pass gave no project name
UpsertWhoamiFailed ==
    \/ \E k \in DOMAIN uCalls : uCalls[k].kind = "whoami" /\ uCalls[k].outcome # "json"
    \/ uPc = "panic"

\* the whoami call of the query case gave no project name
QueryWhoamiFailed == whoamiErr \notin {"none", "nil"}

\* C11: when the whoami response cannot be obtained or decoded into a
\* project name, the upsert or query action under way is aborted with an
\* error: no row is upserted, the query loop is not entered, so that no
\* prompt is shown and no similarity query or fetch is issued, and main does
\* not go on with the action.
C11_WhoamiFailureAborts ==
    /\ UpsertWhoamiFailed =>
           /\ uPc \in {"failed", "panic"}
           /\ uTrace = <<>>
           /\ mPc \in {"upsert", "returned", "panic"}
    /\ QueryWhoamiFailed =>
           /\ qPc = "idle"
           /\ qCount = 0
           /\ qCalls = <<>>
           /\ mPc \in {"returned", "fatal"}

LanguageChosen == Printed("Choose language (en/he): ") /\ mPc # "lang"

IsPrefix(s, t) == Len(s) <= Len(t) /\ \A k \in 1..Len(s) : s[k] = t[k]

\* C12: the language codes "en" and "he" are both recognized: with "en" the
\* English file pair is selected, with "he" the Hebrew pair, no
\* unknown-language message is printed and the actions are then run in the
\* order given; any other code prints the unknown-language message and main
\* returns before any action runs.
C12_BothLanguagesRecognized ==
    LanguageChosen =>
        /\ mLang = <<"e", "n">> =>
               /\ inputFileName = "./en_files/en_chat.txt"
               /\ embeddingsFileName = "./en_files/en_embeddings.csv"
        /\ mLang = <<"h", "e">> =>
               /\ inputFileName = "./he_files/he_chat.txt"
               /\ embeddingsFileName = "./he_files/he_embeddings.csv"
        /\ mLang \in { <<"e", "n">>, <<"h", "e">> } =>
               /\ ~Printed("Unknown language.")
               /\ mPc # "returned" \/ mIdx = Len(mActions) \/ Printed("Unknown action: ")
                     \/ Printed("Failed upserting data to pinecone")
               /\ IsPrefix(mRan, mActions)
        /\ mLang \notin { <<"e", "n">>, <<"h", "e">> } =>
               /\ Printed("Unknown language.")
               /\ mPc = "returned"
               /\ mRan = <<>>

=============================================================================
